---- MODULE Spec2Model ----
(***************************************************************************)
(* Bloom filter of gostl (ds/bloomfilter/bloom.go): a filter of m bits and *)
(* k hash rounds over a packed bit array, with an optional RWMutex.        *)
(*                                                                         *)
(* Spec    : one caller, every exported function is one atomic action.     *)
(* SpecTS  : several goroutines on one filter built with WithThreadSave,   *)
(*           every lock operation and every bit-array access is a step.    *)
(* SpecTSFair : SpecTS under a fair scheduler and a starvation-free mutex. *)
(* SpecTwin: two filters built with the same m and k, given the same Adds. *)
(* SpecAlias: the caller writes to the buffer it passed to NewFromData.    *)
(* SpecAny : a filter built by New or NewWithEstimates, one goroutine that *)
(*           adds and one that looks up, then an export and an import.     *)
(***************************************************************************)
EXTENDS Integers, Sequences, FiniteSets, TLC

VARIABLES
    bf,        \* the filter built by New / NewWithEstimates (Nil before)
    added,     \* values whose Add on bf has returned
    imp,       \* the filter built by NewFromData (Nil before)
    impOf,     \* the filter state whose Data() imp was built from (Nil if none)
    impAdded,  \* values whose Add on imp has returned
    exported,  \* the bytes returned by the last bf.Data(), with the state exported
    last,      \* the last call made and what it returned
    panicked,  \* the program died on a run-time panic
    mu,        \* SpecTS: state of the filter's RWMutex
    pc,        \* SpecTS: position of every goroutine
    loc,       \* SpecTS: locals of every goroutine
    twin,      \* SpecTwin: a second filter built with the same m and k as bf
    buf        \* the caller's buffer that was passed to NewFromData

vars == <<bf, added, imp, impOf, impAdded, exported, last, panicked, mu, pc, loc,
          twin, buf>>

----------------------------------------------------------------------------
(* Bounds of the model *)

MaxM == 9          \* the largest m New is called with
MaxK == 2          \* New is called with k in 0..MaxK
MaxN == 2          \* EstimateParameters is called with n in 0..MaxN
MaxAlloc == 64     \* a make() of more elements than this fails (out of memory)
HugeU64 == 1000    \* stands for the uint64 values >= 2^63 a failed conversion yields
MaxGoroutines == 2 \* SpecTS: goroutines that call the filter concurrently

\* the strings "a", "b", "c" as byte sequences
Values == {<<97>>, <<98>>, <<99>>}

\* the sizes New is called with: no bit, one bit, more than a word
Sizes == {0, 1, MaxM}

Nil == [nil |-> TRUE]

----------------------------------------------------------------------------
(* Salt and the hash function *)

\* "g9hmj2fhgr"
Salt == <<103, 57, 104, 109, 106, 50, 102, 104, 103, 114>>

\* range of one hash value (uint64 in the program)
HashRange == 61

RECURSIVE HashFold(_, _)
HashFold(h, data) ==
    IF data = <<>> THEN h
    ELSE HashFold((h * 33 + Head(data)) % HashRange, Tail(data))

\* hash.GenHashInts(data, num)[i], 0 <= i < num: a deterministic function of
\* the bytes and of the round
HashInt(data, i) == HashFold(i + 7, data)

----------------------------------------------------------------------------
(* Packed bit array: bitmap.Bitmap, one storage word is one byte *)

WordWidth == 8

Pow2(j) == CASE j = 0 -> 1 [] j = 1 -> 2 [] j = 2 -> 4 [] j = 3 -> 8
             [] j = 4 -> 16 [] j = 5 -> 32 [] j = 6 -> 64 [] j = 7 -> 128

BitOf(word, j) == (word \div Pow2(j)) % 2

\* bitmap.New(size): ceil(size / WordWidth) zero words
BitmapNew(size) ==
    [size |-> size,
     data |-> [w \in 1..((size + WordWidth - 1) \div WordWidth) |-> 0],
     own |-> TRUE]

\* bitmap.NewFromData that keeps the slice it is given as its storage
BitmapNewFromDataAliased(data) ==
    [size |-> Len(data) * WordWidth, data |-> data, own |-> FALSE]

\* bitmap.NewFromData(data): the capacity is what the bytes hold, and the
\* bytes are copied in (own: the storage is the bit array's own memory, not
\* the memory of the slice passed)
BitmapNewFromData(data) ==
    [size |-> Len(data) * WordWidth, data |-> data, own |-> TRUE]

\* index valid iff 0 <= i < capacity
InRange(b, i) == i >= 0 /\ i < b.size

\* the word after data[i / WordWidth] |= 1 << (i % WordWidth)
WordWithBit(word, j) == IF BitOf(word, j) = 1 THEN word ELSE word + Pow2(j)

\* Bitmap.Set(i), i in range
BitmapSet(b, i) ==
    [b EXCEPT !.data[(i \div WordWidth) + 1] = WordWithBit(@, i % WordWidth)]

\* Bitmap.IsSet(i), i in range
BitmapIsSet(b, i) == BitOf(b.data[(i \div WordWidth) + 1], i % WordWidth) = 1

\* Bitmap.Data()
BitmapData(b) == b.data

\* the indices of the bits that are 1
BitsSet(b) == {i \in 0..(Len(b.data) * WordWidth - 1) : BitmapIsSet(b, i)}

----------------------------------------------------------------------------
(* encoding/binary, little endian uint64 *)

RECURSIVE PutUint(_, _)
PutUint(x, n) == IF n = 0 THEN <<>> ELSE <<x % 256>> \o PutUint(x \div 256, n - 1)

RECURSIVE GetUint(_)
GetUint(bytes) == IF bytes = <<>> THEN 0 ELSE Head(bytes) + 256 * GetUint(Tail(bytes))

\* binary.Read(reader, LittleEndian, &x) on the bytes left in the reader:
\* x keeps its zero value when fewer than 8 bytes are left, and the reader is
\* drained either way
BinaryRead(rest) ==
    IF Len(rest) >= 8
    THEN [val |-> GetUint(SubSeq(rest, 1, 8)), rest |-> SubSeq(rest, 9, Len(rest))]
    ELSE [val |-> 0, rest |-> <<>>]

----------------------------------------------------------------------------
(* The filter *)

FakeLocker == "FakeLocker"
RWMutex == "RWMutex"

\* var defaultLocker sync.FakeLocker
defaultLocker == FakeLocker

\* WithThreadSave(): option.locker = &gosync.RWMutex{}
WithThreadSave == RWMutex

\* the locker an option list leaves in Option.locker
OptionLocker(opts) == IF opts = <<>> THEN defaultLocker ELSE opts[Len(opts)]

OptionLists == {<<>>, <<WithThreadSave>>}

\* New(m, k, opts...): the result, or a panic when the bit array cannot be
\* allocated
NewOp(m, k, opts) ==
    IF m > MaxAlloc * WordWidth
    THEN [panic |-> TRUE, f |-> Nil]
    ELSE [panic |-> FALSE,
          f |-> [m |-> m, k |-> k, b |-> BitmapNew(m), locker |-> OptionLocker(opts)]]

\* hashs := hash.GenHashInts([]byte(Salt+val), int(bf.k)), for every value
\* the model passes (hashs[i] is defined for the rounds i < k)
SaltedHashs == [val \in Values |-> [i \in 0..MaxAlloc |-> HashInt(Salt \o val, i)]]

\* the loop of Add from round i on: the bit array after it, or a panic
RECURSIVE AddLoop(_, _, _, _, _)
AddLoop(b, m, k, hashs, i) ==
    IF i >= k THEN [panic |-> FALSE, b |-> b]
    ELSE IF m = 0 THEN [panic |-> TRUE, b |-> b]
    ELSE LET idx == hashs[i] % m
         IN  IF ~InRange(b, idx) THEN [panic |-> TRUE, b |-> b]
             ELSE AddLoop(BitmapSet(b, idx), m, k, hashs, i + 1)

\* Add with the loop bound off by one: the last round sets no bit
AddOpDropLast(f, val) ==
    IF f.k > MaxAlloc THEN [panic |-> TRUE, b |-> f.b]
    ELSE AddLoop(f.b, f.m, f.k - 1, SaltedHashs[val], 0)

\* Add that sets its bits in a fresh bit array instead of the filter's
AddOpFresh(f, val) ==
    IF f.k > MaxAlloc THEN [panic |-> TRUE, b |-> f.b]
    ELSE AddLoop(BitmapNew(f.m), f.m, f.k, SaltedHashs[val], 0)

\* Add that inverts the bit of every round (xor) where it should set it (or)
RECURSIVE FlipLoop(_, _, _, _, _)
FlipLoop(b, m, k, hashs, i) ==
    IF i >= k THEN [panic |-> FALSE, b |-> b]
    ELSE IF m = 0 THEN [panic |-> TRUE, b |-> b]
    ELSE LET idx == hashs[i] % m
             w == (idx \div WordWidth) + 1
             j == idx % WordWidth
         IN  IF ~InRange(b, idx) THEN [panic |-> TRUE, b |-> b]
             ELSE FlipLoop([b EXCEPT !.data[w] = IF BitOf(@, j) = 1 THEN @ - Pow2(j)
                                                 ELSE @ + Pow2(j)],
                           m, k, hashs, i + 1)

AddOpFlip(f, val) ==
    IF f.k > MaxAlloc THEN [panic |-> TRUE, b |-> f.b]
    ELSE FlipLoop(f.b, f.m, f.k, SaltedHashs[val], 0)

\* Add that hashes the value without Salt
AddOpUnsalted(f, val) ==
    IF f.k > MaxAlloc THEN [panic |-> TRUE, b |-> f.b]
    ELSE AddLoop(f.b, f.m, f.k, [i \in 0..MaxAlloc |-> HashInt(val, i)], 0)

\* Add whose hash rounds depend on the filter instance (here: on its locker)
\* and not only on Salt and the value
AddOpPerInstance(f, val) ==
    IF f.k > MaxAlloc THEN [panic |-> TRUE, b |-> f.b]
    ELSE LET d == IF f.locker = RWMutex THEN 1 ELSE 0
             hashs == [i \in 0..(MaxAlloc - 1) |-> SaltedHashs[val][i + d]]
         IN  AddLoop(f.b, f.m, f.k, hashs, 0)

\* bf.Add(val)
AddOp(f, val) ==
    IF f.k > MaxAlloc THEN [panic |-> TRUE, b |-> f.b]
    ELSE AddLoop(f.b, f.m, f.k, SaltedHashs[val], 0)

\* the loop of Contains from round i on
RECURSIVE ContainsLoop(_, _, _, _, _)
ContainsLoop(b, m, k, hashs, i) ==
    IF i >= k THEN [panic |-> FALSE, ret |-> TRUE]
    ELSE IF m = 0 THEN [panic |-> TRUE, ret |-> FALSE]
    ELSE LET idx == hashs[i] % m
         IN  IF ~InRange(b, idx) THEN [panic |-> TRUE, ret |-> FALSE]
             ELSE IF ~BitmapIsSet(b, idx) THEN [panic |-> FALSE, ret |-> FALSE]
             ELSE ContainsLoop(b, m, k, hashs, i + 1)

\* Contains with the loop bound off by one: the last round is not tested
ContainsOpDropLast(f, val) ==
    IF f.k > MaxAlloc THEN [panic |-> TRUE, ret |-> FALSE]
    ELSE ContainsLoop(f.b, f.m, f.k - 1, SaltedHashs[val], 0)

\* bf.Contains(val)
ContainsOp(f, val) ==
    IF f.k > MaxAlloc THEN [panic |-> TRUE, ret |-> FALSE]
    ELSE ContainsLoop(f.b, f.m, f.k, SaltedHashs[val], 0)

\* Data that writes k before m
DataOpSwapped(f) == PutUint(f.k, 8) \o PutUint(f.m, 8) \o BitmapData(f.b)

\* bf.Data()
DataOp(f) == PutUint(f.m, 8) \o PutUint(f.k, 8) \o BitmapData(f.b)

\* NewFromData(data, opts...)
NewFromDataOp(data, opts) ==
    LET rm == BinaryRead(data)
        rk == BinaryRead(rm.rest)
    IN  IF Len(data) < 16
        THEN [panic |-> TRUE, f |-> Nil]
        ELSE [panic |-> FALSE,
              f |-> [m |-> rm.val, k |-> rk.val,
                     b |-> BitmapNewFromData(SubSeq(data, 17, Len(data))),
                     locker |-> OptionLocker(opts)]]

----------------------------------------------------------------------------
(* float64, in thousandths, with NaN and the infinities *)

Num(v) == [c |-> "num", v |-> v]
NaN == [c |-> "nan", v |-> 0]
Inf(s) == [c |-> "inf", v |-> s]

Sign(a) == IF a.v < 0 THEN -1 ELSE 1

FMul(a, b) ==
    CASE a.c = "nan" \/ b.c = "nan" -> NaN
      [] a.c = "num" /\ b.c = "num" -> Num((a.v * b.v) \div 1000)
      [] (a.c = "num" /\ a.v = 0) \/ (b.c = "num" /\ b.v = 0) -> NaN
      [] OTHER -> Inf(Sign(a) * Sign(b))

FDiv(a, b) ==
    CASE a.c = "nan" \/ b.c = "nan" -> NaN
      [] a.c = "inf" /\ b.c = "inf" -> NaN
      [] a.c = "inf" -> Inf(Sign(a) * Sign(b))
      [] b.c = "inf" -> Num(0)
      [] b.v = 0 -> IF a.v = 0 THEN NaN ELSE Inf(Sign(a))
      [] OTHER -> Num((a.v * 1000) \div b.v)

\* math.Ceil
Ceil(a) == IF a.c = "num" THEN Num(-(((-a.v) \div 1000) * 1000)) ELSE a

\* math.Ln2 and the constant math.Ln2 * math.Ln2
Ln2 == 693
Ln2Sq == 480

\* math.Log on the probabilities the model passes
Log(a) ==
    CASE a.c = "nan" -> NaN
      [] a.c = "inf" -> IF a.v > 0 THEN Inf(1) ELSE NaN
      [] a.v < 0 -> NaN
      [] a.v = 0 -> Inf(-1)
      [] a.v = 10 -> Num(-4605)
      [] a.v = 100 -> Num(-2303)
      [] a.v = 500 -> Num(-693)
      [] a.v = 1000 -> Num(0)
      [] a.v = 2000 -> Num(693)

\* float64(x) of a uint64
Float64(x) == Num(x * 1000)

\* what uint64(f) yields when f is not representable (NaN, an infinity, a
\* negative number) depends on the platform: 0 or a value >= 2^63
ImplDefinedU64 == {0, HugeU64}

\* uint64(f): the values the conversion can yield
Uint64(a) ==
    IF a.c = "num" /\ a.v >= 0 THEN {a.v \div 1000} ELSE ImplDefinedU64

\* the probabilities passed: -0.5, 0, 0.1, 0.5, 1, 2
Probabilities == {Num(-500), Num(0), Num(100), Num(500), Num(1000), Num(2000)}

\* EstimateParameters(n, p): the (m, k) pairs it can return
EstimateParametersOp(n, p) ==
    LET fm == Ceil(FDiv(FMul(FMul(Num(-1000), Float64(n)), Log(p)), Num(Ln2Sq)))
        fk(m) == Ceil(FDiv(FMul(Num(Ln2), Float64(m)), Float64(n)))
    IN  UNION {{[m |-> m, k |-> k] : k \in Uint64(fk(m))} : m \in Uint64(fm)}

----------------------------------------------------------------------------
(* One caller: every exported function is one action *)

Init ==
    /\ bf = Nil
    /\ added = {}
    /\ imp = Nil
    /\ impOf = Nil
    /\ impAdded = {}
    /\ exported = Nil
    /\ last = [op |-> "none"]
    /\ panicked = FALSE
    /\ mu = Nil
    /\ pc = Nil
    /\ loc = Nil
    /\ twin = Nil
    /\ buf = <<>>

\* New(m, k, opts...)
New(m, k, opts) ==
    /\ ~panicked
    /\ bf = Nil
    /\ LET r == NewOp(m, k, opts)
       IN  /\ bf' = r.f
           /\ panicked' = r.panic
    /\ last' = [op |-> "New", m |-> m, k |-> k, opts |-> opts]
    /\ UNCHANGED <<added, imp, impOf, impAdded, exported, mu, pc, loc, twin, buf>>

\* EstimateParameters(n, p), called to size a filter before it is built
EstimateParameters(n, p) ==
    /\ ~panicked
    /\ bf = Nil
    /\ \E e \in EstimateParametersOp(n, p) :
          last' = [op |-> "EstimateParameters", n |-> n, p |-> p, ret |-> e]
    /\ UNCHANGED <<bf, added, imp, impOf, impAdded, exported, panicked, mu, pc, loc, twin, buf>>

\* NewWithEstimates that passes WithThreadSave() on to New
NewWithEstimatesLocked(n, fp) ==
    /\ ~panicked
    /\ bf = Nil
    /\ \E e \in EstimateParametersOp(n, fp) :
          LET r == NewOp(e.m, e.k, <<WithThreadSave>>)
          IN  /\ bf' = r.f
              /\ panicked' = r.panic
              /\ last' = [op |-> "NewWithEstimates", n |-> n, p |-> fp, ret |-> e]
    /\ UNCHANGED <<added, imp, impOf, impAdded, exported, mu, pc, loc, twin, buf>>

\* NewWithEstimates(n, fp): New(EstimateParameters(n, fp)) without options
NewWithEstimates(n, fp) ==
    /\ ~panicked
    /\ bf = Nil
    /\ \E e \in EstimateParametersOp(n, fp) :
          LET r == NewOp(e.m, e.k, <<>>)
          IN  /\ bf' = r.f
              /\ panicked' = r.panic
              /\ last' = [op |-> "NewWithEstimates", n |-> n, p |-> fp, ret |-> e]
    /\ UNCHANGED <<added, imp, impOf, impAdded, exported, mu, pc, loc, twin, buf>>

\* bf.Add(val) on the filter built by New
Add(val) ==
    /\ ~panicked
    /\ bf # Nil
    /\ LET r == AddOp(bf, val)
       IN  /\ bf' = [bf EXCEPT !.b = r.b]
           /\ panicked' = r.panic
           /\ added' = IF r.panic THEN added ELSE added \cup {val}
    /\ last' = [op |-> "Add", on |-> "bf", val |-> val]
    /\ UNCHANGED <<imp, impOf, impAdded, exported, mu, pc, loc, twin, buf>>

\* Contains that calls Set where it should call IsSet
ContainsSetting(val) ==
    /\ ~panicked
    /\ bf # Nil
    /\ LET r == AddOp(bf, val)
       IN  /\ bf' = [bf EXCEPT !.b = r.b]
           /\ panicked' = r.panic
           /\ last' = [op |-> "Contains", on |-> "bf", val |-> val, ret |-> TRUE]
    /\ UNCHANGED <<added, imp, impOf, impAdded, exported, mu, pc, loc, twin, buf>>

\* bf.Contains(val) on the filter built by New
Contains(val) ==
    /\ ~panicked
    /\ bf # Nil
    /\ LET r == ContainsOp(bf, val)
       IN  /\ panicked' = r.panic
           /\ last' = [op |-> "Contains", on |-> "bf", val |-> val, ret |-> r.ret]
    /\ UNCHANGED <<bf, added, imp, impOf, impAdded, exported, mu, pc, loc, twin, buf>>

\* bf.Data()
Data ==
    /\ ~panicked
    /\ bf # Nil
    /\ exported' = [data |-> DataOp(bf), of |-> bf]
    /\ last' = [op |-> "Data", on |-> "bf"]
    /\ UNCHANGED <<bf, added, imp, impOf, impAdded, panicked, mu, pc, loc, twin, buf>>

\* the buffers the caller passes to NewFromData: the exported bytes, and
\* what is left of them when the tail is cut off
Buffers ==
    IF exported = Nil THEN {}
    ELSE {SubSeq(exported.data, 1, n) : n \in {0, 8, 15} \cup 16..Len(exported.data)}

\* NewFromData(data, opts...)
NewFromData(data, opts) ==
    /\ ~panicked
    /\ imp = Nil
    /\ LET r == NewFromDataOp(data, opts)
       IN  /\ imp' = r.f
           /\ panicked' = r.panic
    /\ impOf' = IF data = exported.data THEN exported.of ELSE Nil
    /\ buf' = data
    /\ last' = [op |-> "NewFromData", data |-> data, opts |-> opts]
    /\ UNCHANGED <<bf, added, impAdded, exported, mu, pc, loc, twin>>

\* imp.Add(val) on the filter built by NewFromData
ImpAdd(val) ==
    /\ ~panicked
    /\ imp # Nil
    /\ LET r == AddOp(imp, val)
       IN  /\ imp' = [imp EXCEPT !.b = r.b]
           /\ panicked' = r.panic
           /\ impAdded' = IF r.panic THEN impAdded ELSE impAdded \cup {val}
           /\ buf' = IF imp.b.own THEN buf ELSE SubSeq(buf, 1, 16) \o r.b.data
    /\ last' = [op |-> "Add", on |-> "imp", val |-> val]
    /\ UNCHANGED <<bf, added, impOf, exported, mu, pc, loc, twin>>

\* imp.Contains(val) on the filter built by NewFromData
ImpContains(val) ==
    /\ ~panicked
    /\ imp # Nil
    /\ LET r == ContainsOp(imp, val)
       IN  /\ panicked' = r.panic
           /\ last' = [op |-> "Contains", on |-> "imp", val |-> val, ret |-> r.ret]
    /\ UNCHANGED <<bf, added, imp, impOf, impAdded, exported, mu, pc, loc, twin, buf>>

Next ==
    \/ \E m \in Sizes, k \in 0..MaxK, opts \in OptionLists : New(m, k, opts)
    \/ \E n \in 0..MaxN, p \in Probabilities : EstimateParameters(n, p)
    \/ \E n \in 0..MaxN, p \in Probabilities : NewWithEstimates(n, p)
    \/ \E val \in Values : Add(val)
    \/ \E val \in Values : Contains(val)
    \/ Data
    \/ \E data \in Buffers, opts \in OptionLists : NewFromData(data, opts)
    \/ \E val \in Values : ImpAdd(val)
    \/ \E val \in Values : ImpContains(val)

Spec == Init /\ [][Next]_vars

----------------------------------------------------------------------------
(* The caller keeps the buffer it passed to NewFromData and writes to it *)

\* the byte the caller stores
WrittenByte == 255

\* data[i - 1] = WrittenByte, by the caller, after NewFromData(data): the
\* store reaches the bit array only if the bit array's storage is that memory
CallerWrite(i) ==
    /\ ~panicked
    /\ imp # Nil
    /\ i \in 1..Len(buf)
    /\ buf' = [buf EXCEPT ![i] = WrittenByte]
    /\ imp' = IF imp.b.own \/ i <= 16 THEN imp
              ELSE [imp EXCEPT !.b.data[i - 16] = WrittenByte]
    /\ last' = [op |-> "write", i |-> i]
    /\ UNCHANGED <<bf, added, impOf, impAdded, exported, panicked, mu, pc, loc, twin>>

\* the calls of Next on filters that hold bits, the import of a whole
\* export, and the caller's writes to the first header byte and to the
\* storage bytes of its buffer
NextAlias ==
    \/ \E m \in Sizes \ {0}, k \in 1..MaxK : New(m, k, <<>>)
    \/ \E val \in Values : Add(val)
    \/ Data
    \/ exported # Nil /\ NewFromData(exported.data, <<>>)
    \/ \E val \in Values : ImpAdd(val)
    \/ \E val \in Values : ImpContains(val)
    \/ \E i \in {1} \cup 17..(16 + ((MaxM + WordWidth - 1) \div WordWidth)) : CallerWrite(i)

SpecAlias == Init /\ [][NextAlias]_vars

----------------------------------------------------------------------------
(* Two filters built with the same m and k, given the same Add calls *)

\* bf = New(m, k, opts...) and twin = New(m, k, topts...)
TwinNew(m, k, opts, topts) ==
    /\ ~panicked
    /\ bf = Nil /\ twin = Nil
    /\ LET r == NewOp(m, k, opts)
           t == NewOp(m, k, topts)
       IN  /\ bf' = r.f
           /\ twin' = t.f
           /\ panicked' = (r.panic \/ t.panic)
    /\ last' = [op |-> "New", m |-> m, k |-> k, opts |-> opts]
    /\ UNCHANGED <<added, imp, impOf, impAdded, exported, mu, pc, loc, buf>>

\* bf.Add(val) and twin.Add(val): the next call of the common sequence
TwinAdd(val) ==
    /\ ~panicked
    /\ bf # Nil /\ twin # Nil
    /\ LET r == AddOp(bf, val)
           t == AddOp(twin, val)
       IN  /\ bf' = [bf EXCEPT !.b = r.b]
           /\ twin' = [twin EXCEPT !.b = t.b]
           /\ panicked' = (r.panic \/ t.panic)
           /\ added' = IF r.panic \/ t.panic THEN added ELSE added \cup {val}
    /\ last' = [op |-> "Add", on |-> "both", val |-> val]
    /\ UNCHANGED <<imp, impOf, impAdded, exported, mu, pc, loc, buf>>

\* bf.Data() and twin.Data()
TwinData ==
    /\ ~panicked
    /\ bf # Nil /\ twin # Nil
    /\ exported' = [data |-> DataOp(bf), of |-> bf, tdata |-> DataOp(twin)]
    /\ last' = [op |-> "Data", on |-> "both"]
    /\ UNCHANGED <<bf, twin, added, imp, impOf, impAdded, panicked, mu, pc, loc, buf>>

NextTwin ==
    \/ \E m \in Sizes, k \in 0..MaxK, opts \in OptionLists, topts \in OptionLists :
          TwinNew(m, k, opts, topts)
    \/ \E val \in Values : TwinAdd(val)
    \/ TwinData

SpecTwin == Init /\ [][NextTwin]_vars

----------------------------------------------------------------------------
(* Several goroutines on one filter: the locker and the bit array are shared, *)
(* every lock operation and every access to a storage word is one step        *)

Goroutines == 1..MaxGoroutines

\* a sync.RWMutex nobody holds
Unlocked == [writer |-> 0, readers |-> {}]

\* locker.Lock() can return: FakeLocker never blocks, RWMutex waits until
\* there is no writer and no reader
CanLock(f) == f.locker = FakeLocker \/ (mu.writer = 0 /\ mu.readers = {})

\* locker.RLock() can return: RWMutex waits until there is no writer
CanRLock(f) == f.locker = FakeLocker \/ mu.writer = 0

\* the mutex after g's Lock / Unlock / RLock / RUnlock (FakeLocker: no effect)
Locked(f, g) == IF f.locker = RWMutex THEN [mu EXCEPT !.writer = g] ELSE mu
UnlockedBy(f, g) == IF f.locker = RWMutex THEN [mu EXCEPT !.writer = 0] ELSE mu
RLocked(f, g) == IF f.locker = RWMutex THEN [mu EXCEPT !.readers = @ \cup {g}] ELSE mu
RUnlockedBy(f, g) == IF f.locker = RWMutex THEN [mu EXCEPT !.readers = @ \ {g}] ELSE mu

\* the locals of a goroutine that is in no call
NoCall == [op |-> "none"]

\* the filters the goroutines share: New(m, k, WithThreadSave())
InitTS ==
    /\ \E m \in Sizes, k \in 0..MaxK : bf = NewOp(m, k, <<WithThreadSave>>).f
    /\ added = {}
    /\ imp = Nil
    /\ impOf = Nil
    /\ impAdded = {}
    /\ exported = Nil
    /\ last = [op |-> "none"]
    /\ panicked = FALSE
    /\ mu = Unlocked
    /\ pc = [g \in Goroutines |-> "idle"]
    /\ loc = [g \in Goroutines |-> NoCall]
    /\ twin = Nil
    /\ buf = <<>>

seqVars == <<imp, impOf, impAdded, exported, last, twin, buf>>

\* g calls bf.Add(val)
AddCall(g, val) ==
    /\ ~panicked /\ pc[g] = "idle"
    /\ pc' = [pc EXCEPT ![g] = "add_lock"]
    /\ loc' = [loc EXCEPT ![g] = [op |-> "Add", val |-> val, i |-> 0, word |-> 0]]
    /\ UNCHANGED <<bf, added, panicked, mu, seqVars>>

\* Add that takes the shared lock: bf.locker.RLock()
AddLockShared(g) ==
    /\ ~panicked /\ pc[g] = "add_lock"
    /\ CanRLock(bf)
    /\ mu' = RLocked(bf, g)
    /\ pc' = [pc EXCEPT ![g] = "add_loop"]
    /\ UNCHANGED <<bf, added, panicked, loc, seqVars>>

\* bf.locker.Lock(); hashs := hash.GenHashInts(...)
AddLock(g) ==
    /\ ~panicked /\ pc[g] = "add_lock"
    /\ CanLock(bf)
    /\ mu' = Locked(bf, g)
    /\ pc' = [pc EXCEPT ![g] = "add_loop"]
    /\ UNCHANGED <<bf, added, panicked, loc, seqVars>>

\* i < bf.k; hashs[i] % bf.m; Set reads the storage word of the bit
AddRead(g) ==
    /\ ~panicked /\ pc[g] = "add_loop"
    /\ LET i == loc[g].i
           hashs == SaltedHashs[loc[g].val]
       IN  IF i >= bf.k
           THEN /\ pc' = [pc EXCEPT ![g] = "add_unlock"]
                /\ UNCHANGED <<loc, panicked>>
           ELSE IF bf.m = 0 \/ ~InRange(bf.b, hashs[i] % bf.m)
           THEN /\ panicked' = TRUE
                /\ UNCHANGED <<pc, loc>>
           ELSE /\ loc' = [loc EXCEPT ![g].word = bf.b.data[((hashs[i] % bf.m) \div WordWidth) + 1]]
                /\ pc' = [pc EXCEPT ![g] = "add_write"]
                /\ UNCHANGED panicked
    /\ UNCHANGED <<bf, added, mu, seqVars>>

\* Set writes the word back with the bit set; i++
AddWrite(g) ==
    /\ ~panicked /\ pc[g] = "add_write"
    /\ LET idx == SaltedHashs[loc[g].val][loc[g].i] % bf.m
       IN  bf' = [bf EXCEPT !.b.data[(idx \div WordWidth) + 1] =
                                WordWithBit(loc[g].word, idx % WordWidth)]
    /\ loc' = [loc EXCEPT ![g].i = @ + 1]
    /\ pc' = [pc EXCEPT ![g] = "add_loop"]
    /\ UNCHANGED <<added, panicked, mu, seqVars>>

\* the deferred bf.locker.Unlock(); Add returns
AddUnlock(g) ==
    /\ ~panicked /\ pc[g] = "add_unlock"
    /\ mu' = UnlockedBy(bf, g)
    /\ pc' = [pc EXCEPT ![g] = "idle"]
    /\ loc' = [loc EXCEPT ![g] = NoCall]
    /\ added' = added \cup {loc[g].val}
    /\ UNCHANGED <<bf, panicked, seqVars>>

\* g calls bf.Contains(val); must: Add(val) had returned before the call
ContainsCall(g, val) ==
    /\ ~panicked /\ pc[g] = "idle"
    /\ pc' = [pc EXCEPT ![g] = "contains_lock"]
    /\ loc' = [loc EXCEPT ![g] = [op |-> "Contains", val |-> val, i |-> 0,
                                  must |-> val \in added, ret |-> FALSE]]
    /\ UNCHANGED <<bf, added, panicked, mu, seqVars>>

\* Contains that goes on without the lock
ContainsLockSkipped(g) ==
    /\ ~panicked /\ pc[g] = "contains_lock"
    /\ pc' = [pc EXCEPT ![g] = "contains_loop"]
    /\ UNCHANGED <<bf, added, panicked, mu, loc, seqVars>>

\* bf.locker.RLock(); hashs := hash.GenHashInts(...)
ContainsLock(g) ==
    /\ ~panicked /\ pc[g] = "contains_lock"
    /\ CanRLock(bf)
    /\ mu' = RLocked(bf, g)
    /\ pc' = [pc EXCEPT ![g] = "contains_loop"]
    /\ UNCHANGED <<bf, added, panicked, loc, seqVars>>

\* i < bf.k; IsSet(hashs[i] % bf.m): return false on the first unset bit
ContainsRead(g) ==
    /\ ~panicked /\ pc[g] = "contains_loop"
    /\ LET i == loc[g].i
           hashs == SaltedHashs[loc[g].val]
       IN  IF i >= bf.k
           THEN /\ loc' = [loc EXCEPT ![g].ret = TRUE]
                /\ pc' = [pc EXCEPT ![g] = "contains_unlock"]
                /\ UNCHANGED panicked
           ELSE IF bf.m = 0 \/ ~InRange(bf.b, hashs[i] % bf.m)
           THEN /\ panicked' = TRUE
                /\ UNCHANGED <<pc, loc>>
           ELSE IF ~BitmapIsSet(bf.b, hashs[i] % bf.m)
           THEN /\ loc' = [loc EXCEPT ![g].ret = FALSE]
                /\ pc' = [pc EXCEPT ![g] = "contains_unlock"]
                /\ UNCHANGED panicked
           ELSE /\ loc' = [loc EXCEPT ![g].i = @ + 1]
                /\ UNCHANGED <<pc, panicked>>
    /\ UNCHANGED <<bf, added, mu, seqVars>>

\* the deferred bf.locker.RUnlock(); Contains returns
ContainsUnlock(g) ==
    /\ ~panicked /\ pc[g] = "contains_unlock"
    /\ mu' = RUnlockedBy(bf, g)
    /\ pc' = [pc EXCEPT ![g] = "idle"]
    /\ loc' = [loc EXCEPT ![g] = NoCall]
    /\ UNCHANGED <<bf, added, panicked, seqVars>>

\* g calls bf.Data()
DataCall(g) ==
    /\ ~panicked /\ pc[g] = "idle"
    /\ pc' = [pc EXCEPT ![g] = "data_lock"]
    /\ loc' = [loc EXCEPT ![g] = [op |-> "Data", ret |-> <<>>]]
    /\ UNCHANGED <<bf, added, panicked, mu, seqVars>>

\* bf.locker.Lock()
DataLock(g) ==
    /\ ~panicked /\ pc[g] = "data_lock"
    /\ CanLock(bf)
    /\ mu' = Locked(bf, g)
    /\ pc' = [pc EXCEPT ![g] = "data_write"]
    /\ UNCHANGED <<bf, added, panicked, loc, seqVars>>

\* binary.Write of m and k; buf.Write(bf.b.Data())
DataWrite(g) ==
    /\ ~panicked /\ pc[g] = "data_write"
    /\ loc' = [loc EXCEPT ![g].ret = DataOp(bf)]
    /\ pc' = [pc EXCEPT ![g] = "data_unlock"]
    /\ UNCHANGED <<bf, added, panicked, mu, seqVars>>

\* the deferred bf.locker.Unlock(); Data returns
DataUnlock(g) ==
    /\ ~panicked /\ pc[g] = "data_unlock"
    /\ mu' = UnlockedBy(bf, g)
    /\ pc' = [pc EXCEPT ![g] = "idle"]
    /\ loc' = [loc EXCEPT ![g] = NoCall]
    /\ UNCHANGED <<bf, added, panicked, seqVars>>

NextTS ==
    \E g \in Goroutines :
        \/ \E val \in Values : AddCall(g, val)
        \/ AddLock(g)
        \/ AddRead(g)
        \/ AddWrite(g)
        \/ AddUnlock(g)
        \/ \E val \in Values : ContainsCall(g, val)
        \/ ContainsLock(g)
        \/ ContainsRead(g)
        \/ ContainsUnlock(g)
        \/ DataCall(g)
        \/ DataLock(g)
        \/ DataWrite(g)
        \/ DataUnlock(g)

SpecTS == InitTS /\ [][NextTS]_vars

----------------------------------------------------------------------------
(* A program that builds a filter with New or NewWithEstimates, lets          *)
(* goroutines call it, and when they are done exports and imports it          *)

InitAny ==
    /\ bf = Nil
    /\ added = {}
    /\ imp = Nil
    /\ impOf = Nil
    /\ impAdded = {}
    /\ exported = Nil
    /\ last = [op |-> "none"]
    /\ panicked = FALSE
    /\ mu = Unlocked
    /\ pc = [g \in Goroutines |-> "idle"]
    /\ loc = [g \in Goroutines |-> NoCall]
    /\ twin = Nil
    /\ buf = <<>>

\* no call on bf is in progress
AllIdle == \A g \in Goroutines : pc[g] = "idle"

\* the goroutine that calls Add, and the one that calls Contains
Adder == 1
Reader == 2

\* one goroutine adds values while another one looks values up
NextAddContains ==
    \/ \E val \in Values : AddCall(Adder, val)
    \/ AddLock(Adder)
    \/ AddRead(Adder)
    \/ AddWrite(Adder)
    \/ AddUnlock(Adder)
    \/ \E val \in Values : ContainsCall(Reader, val)
    \/ ContainsLock(Reader)
    \/ ContainsRead(Reader)
    \/ ContainsUnlock(Reader)

\* the filter is built, the two goroutines call it, and once they are done
\* the program exports it and imports the bytes
NextAny ==
    \/ \E opts \in OptionLists : New(MaxM, MaxK, opts)
    \/ \E n \in 0..MaxN, p \in Probabilities : NewWithEstimates(n, p)
    \/ bf # Nil /\ exported = Nil /\ NextAddContains
    \/ AllIdle /\ exported = Nil /\ Data
    \/ exported # Nil /\ \E opts \in OptionLists : NewFromData(exported.data, opts)

SpecAny == InitAny /\ [][NextAny]_vars

\* the steps of g inside a call it has made
Step(g) ==
    \/ AddLock(g) \/ AddRead(g) \/ AddWrite(g) \/ AddUnlock(g)
    \/ ContainsLock(g) \/ ContainsRead(g) \/ ContainsUnlock(g)
    \/ DataLock(g) \/ DataWrite(g) \/ DataUnlock(g)

\* the scheduler runs every goroutine that can step, and sync.RWMutex lets
\* no waiting Lock or RLock starve; nothing obliges a goroutine to make a call
Fairness ==
    \A g \in Goroutines :
        /\ WF_vars(Step(g))
        /\ SF_vars(AddLock(g)) /\ SF_vars(ContainsLock(g)) /\ SF_vars(DataLock(g))

SpecTSFair == SpecTS /\ Fairness

----------------------------------------------------------------------------
(* Properties *)

Answer(ret) == [panic |-> FALSE, ret |-> ret]

\* the bits the Adds of the values in S set in a filter of m bits and k rounds
BitsOfValues(S, m, k) ==
    IF m = 0 THEN {} ELSE {SaltedHashs[v][i] % m : v \in S, i \in 0..(k - 1)}

\* C1: no false negatives.  In every state of a filter built by New, each
\* value whose Add has returned is answered true by Contains, whatever else
\* was added before or after; and a Contains call that has just returned for
\* such a value returned true.
C1_NoFalseNegatives ==
    /\ (bf # Nil /\ ~panicked) => \A v \in added : ContainsOp(bf, v) = Answer(TRUE)
    /\ (~panicked /\ last.op = "Contains" /\ last.on = "bf" /\ last.val \in added)
          => last.ret = TRUE

\* Contains(v) has returned true on a filter of several bits and at least one
\* round, after v and another value were added
C1_Witness ==
    /\ last.op = "Contains" /\ last.on = "bf" /\ last.ret = TRUE
    /\ last.val \in added /\ Cardinality(added) >= 2
    /\ bf.m > 1 /\ bf.k >= 1
    /\ \E v \in Values : ContainsOp(bf, v) = Answer(FALSE)

\* what a step from filter state f to filter state g keeps: the bits that
\* are set, and the true answers of Contains
Keeps(f, g) ==
    (f # Nil /\ g # Nil /\ f # g) =>
        /\ BitsSet(f.b) \subseteq BitsSet(g.b)
        /\ \A v \in Values : ContainsOp(f, v) = Answer(TRUE) => ContainsOp(g, v) = Answer(TRUE)

\* C2: monotonicity.  No step (Add, Contains, Data, on either filter) clears
\* a bit that is set, and a value that Contains answers true for keeps being
\* answered true after every step.
C2_Monotonicity == [][Keeps(bf, bf') /\ Keeps(imp, imp')]_vars

\* Contains returned true for a value after the filter was exported and bits
\* were added since the export
C2_Witness ==
    /\ last.op = "Contains" /\ last.on = "bf" /\ last.ret = TRUE
    /\ exported # Nil
    /\ BitsSet(exported.of.b) # {}
    /\ BitsSet(exported.of.b) # BitsSet(bf.b)
    /\ \E v \in Values : ContainsOp(exported.of, v) = Answer(TRUE)

\* C3: round trip.  The filter NewFromData builds from the bytes of Data() has
\* the m and the k of the exported filter; until something is added to it, it
\* has the same bits set and gives the same Contains answer for every value;
\* afterwards it still answers true where the exported filter did, and true
\* for every value added to it.
C3_RoundTrip ==
    (imp # Nil /\ impOf # Nil) =>
        /\ imp.m = impOf.m
        /\ imp.k = impOf.k
        /\ (impAdded = {} /\ ~panicked) =>
              /\ BitsSet(imp.b) = BitsSet(impOf.b)
              /\ \A v \in Values : ContainsOp(imp, v) = ContainsOp(impOf, v)
        /\ \A v \in Values : ContainsOp(impOf, v) = Answer(TRUE) => ContainsOp(imp, v) = Answer(TRUE)
        /\ ~panicked => \A v \in impAdded : ContainsOp(imp, v) = Answer(TRUE)

\* a filter was imported from the export of a filter holding some value but
\* not all, and a value the export did not hold was added to the import
C3_Witness ==
    /\ imp # Nil /\ impOf # Nil
    /\ impOf.m > WordWidth /\ impOf.k >= 1
    /\ \E v \in Values : ContainsOp(impOf, v) = Answer(TRUE)
    /\ \E v \in impAdded : ContainsOp(impOf, v) = Answer(FALSE)
    /\ last.op = "Contains" /\ last.on = "imp" /\ last.ret = TRUE

\* the buffer is shorter than the layout: no whole header, or fewer storage
\* bytes than the m of the header needs
Truncated(data) ==
    \/ Len(data) < 16
    \/ (Len(data) - 16) * WordWidth < GetUint(SubSeq(data, 1, 8))

\* C4: import of a truncated buffer is a format error.  After NewFromData on a
\* buffer shorter than the layout the program has not panicked and no filter
\* was built (so none whose bit array is smaller than its m).
C4_TruncatedImportRejected ==
    (last.op = "NewFromData" /\ Truncated(last.data)) => (~panicked /\ imp = Nil)

\* a goroutine is between Lock and Unlock of Add or Data
Writing(g) == pc[g] \in {"add_loop", "add_write", "add_unlock", "data_write", "data_unlock"}

\* a goroutine is between RLock and RUnlock of Contains
Reading(g) == pc[g] \in {"contains_loop", "contains_unlock"}

\* C5: concurrent safety.  On a filter built with WithThreadSave no operation
\* panics, every bit of a completed Add stays set, and a Contains call made
\* after the Add of its value had returned returns true.
C5_ConcurrentSafety ==
    /\ ~panicked
    /\ BitsOfValues(added, bf.m, bf.k) \subseteq BitsSet(bf.b)
    /\ \A g \in Goroutines :
          (pc[g] = "contains_unlock" /\ loc[g].must) => loc[g].ret = TRUE

\* C5 on the filters that have at least one bit
C5_ConcurrentSafetyOfNonEmpty == bf.m >= 1 => C5_ConcurrentSafety

\* C6: atomic add.  Whenever a Contains is testing bits or a Data is copying
\* the filter, and in every exported snapshot, the bits that are set are
\* exactly those of the Adds that have returned: no Add is part done.
C6_AtomicAdd ==
    \A g \in Goroutines :
        /\ pc[g] \in {"contains_loop", "contains_unlock", "data_write", "data_unlock"} =>
              /\ BitsSet(bf.b) = BitsOfValues(added, bf.m, bf.k)
              /\ \A h \in Goroutines : pc[h] \notin {"add_loop", "add_write"}
        /\ pc[g] = "data_unlock" =>
              /\ loc[g].ret = DataOp(bf)
              /\ BitsSet(BitmapNewFromData(SubSeq(loc[g].ret, 17, Len(loc[g].ret))))
                    = BitsOfValues(added, bf.m, bf.k)

\* a Data has exported a filter that holds a value while another goroutine
\* waits for the lock in an Add of a value whose bits are not all set yet
C6_Witness ==
    \E g, h \in Goroutines :
        /\ pc[g] = "data_unlock" /\ added # {} /\ BitsSet(bf.b) # {}
        /\ pc[h] = "add_lock"
        /\ ~(BitsOfValues({loc[h].val}, bf.m, bf.k) \subseteq BitsSet(bf.b))

\* C7: reader/writer exclusion.  While a goroutine is inside Add or Data
\* under the lock, no other goroutine is inside Add, Data or Contains.
C7_WriterExcludesAll ==
    \A g, h \in Goroutines :
        (g # h /\ Writing(g)) => (~Writing(h) /\ ~Reading(h))

\* two goroutines are testing bits inside Contains at the same time
C7_Witness ==
    \E g, h \in Goroutines :
        /\ g # h
        /\ pc[g] = "contains_loop" /\ pc[h] = "contains_loop"
        /\ mu.readers = {g, h}
        /\ bf.k >= 1 /\ added # {}

\* C8: empty filter.  A filter built by New with m >= 1 and k >= 1 answers
\* false for every value as long as no Add was called on it.
C8_EmptyFilter ==
    /\ (bf # Nil /\ ~panicked /\ bf.m >= 1 /\ bf.k >= 1 /\ added = {})
          => \A v \in Values : ContainsOp(bf, v) = Answer(FALSE)
    /\ (~panicked /\ last.op = "Contains" /\ last.on = "bf"
            /\ bf.m >= 1 /\ bf.k >= 1 /\ added = {})
          => last.ret = FALSE

\* Contains has returned false on a fresh filter of more than a word
C8_Witness ==
    /\ last.op = "Contains" /\ last.on = "bf" /\ last.ret = FALSE
    /\ bf.m > WordWidth /\ bf.k >= 1 /\ added = {} /\ ~panicked

\* C9: construction rejects k = 0.  Every filter that exists has k >= 1.
C9_ZeroKRejected == bf # Nil => bf.k >= 1

\* n = 0, or p outside the open interval (0, 1)
InvalidEstimate(n, p) == n = 0 \/ p.c # "num" \/ p.v <= 0 \/ p.v >= 1000

\* C10: estimation rejects invalid inputs.  EstimateParameters and
\* NewWithEstimates called with n = 0 or p outside (0, 1) return no (m, k)
\* and build no filter.
C10_InvalidEstimateRejected ==
    (last.op \in {"EstimateParameters", "NewWithEstimates"} /\ InvalidEstimate(last.n, last.p))
        => ("ret" \notin DOMAIN last /\ bf = Nil)

Layout(f, d) ==
    /\ Len(d) >= 16
    /\ GetUint(SubSeq(d, 1, 8)) = f.m
    /\ GetUint(SubSeq(d, 9, 16)) = f.k
    /\ SubSeq(d, 17, Len(d)) = BitmapData(f.b)
    /\ Len(d) = 16 + ((f.m + WordWidth - 1) \div WordWidth)

\* C12: export layout.  For every filter state, of the filter built by New or
\* NewWithEstimates and of the filter built by NewFromData, Data() returns
\* bytes that decode to m at offsets 0..8 and to k at offsets 8..16, followed
\* by exactly the storage bytes of the bit array, 16 plus the storage size of
\* m bits in all.
C12_ExportLayout ==
    /\ bf # Nil => Layout(bf, DataOp(bf))
    /\ imp # Nil => Layout(imp, DataOp(imp))

\* the same for the filters built by New and NewWithEstimates only, on the
\* bytes Data() returned
C12_ExportLayoutOfNew == exported # Nil => Layout(exported.of, exported.data)

\* the positions at which g holds the write lock / a read lock
HoldsLock(g) == pc[g] \in {"add_loop", "add_write", "add_unlock", "data_write", "data_unlock"}
HoldsRLock(g) == pc[g] \in {"contains_loop", "contains_unlock"}

\* every call holds the lock exactly between its one acquisition and its
\* deferred release, so the lock is free when no call is in progress
C13_LockDiscipline ==
    /\ \A g \in Goroutines : (mu.writer = g) = HoldsLock(g)
    /\ mu.readers = {g \in Goroutines : HoldsRLock(g)}
    /\ (\A g \in Goroutines : pc[g] = "idle") => mu = Unlocked

\* C13: no deadlock.  On a filter built with WithThreadSave every Add,
\* Contains and Data call that has started can go on until it returns (there
\* is no state in which a call is in progress and no goroutine can step), it
\* holds the lock only between its one acquisition and its release, and the
\* lock is free whenever no call is in progress.
C13_NoDeadlock ==
    /\ C13_LockDiscipline
    /\ (\E g \in Goroutines : pc[g] # "idle") => ENABLED NextTS

\* on the filters whose Add and Contains cannot panic (m >= 1, or no hash
\* round), under fair scheduling, every call that has started returns
C13_ReturnsOfNonEmpty ==
    \A g \in Goroutines :
        (pc[g] # "idle" /\ (bf.m >= 1 \/ bf.k = 0)) ~> (pc[g] = "idle")

\* every index Add and Contains compute on f, for every value and round, is
\* computable (m # 0) and inside the bit array
IndexesInBounds(f) ==
    LET rounds == IF f.k > MaxAlloc THEN MaxAlloc ELSE f.k
    IN  \/ f.k = 0
        \/ /\ f.m # 0
           /\ \A v \in Values, i \in 0..(rounds - 1) :
                  InRange(f.b, SaltedHashs[v][i] % f.m)

\* C14: bounds.  For every filter the constructors New, NewWithEstimates and
\* NewFromData return and every value, the reduction hashs[i] % m cannot fail
\* and every index Add and Contains pass to the bit array is inside it.
C14_IndexInBounds ==
    /\ bf # Nil => IndexesInBounds(bf)
    /\ imp # Nil => IndexesInBounds(imp)

\* the same for the filters whose m is not 0 and that were not imported from
\* a buffer shorter than m bits need
C14_IndexInBoundsOfSized ==
    /\ (bf # Nil /\ bf.m # 0) => IndexesInBounds(bf)
    /\ (imp # Nil /\ imp.m # 0 /\ imp.b.size >= imp.m) => IndexesInBounds(imp)

\* C15: bits come only from insertion.  In every state of a filter built by
\* New(m, k), the bits that are 1 are exactly the indices
\* hash_i(Salt+v) mod m, i < k, of the values v whose Add has returned.
C15_BitsOnlyFromAdd ==
    bf # Nil => BitsSet(bf.b) = BitsOfValues(added, bf.m, bf.k)

\* two values were added, some bits are 1 and some are 0
C15_Witness ==
    /\ bf # Nil /\ last.op = "Add"
    /\ Cardinality(added) >= 2
    /\ BitsSet(bf.b) # {}
    /\ BitsSet(bf.b) # 0..(bf.m - 1)

SameShape(f, g) ==
    (f # Nil /\ f # g) =>
        /\ g # Nil
        /\ g.m = f.m /\ g.k = f.k
        /\ g.b.size = f.b.size /\ Len(g.b.data) = Len(f.b.data)

\* C17: read-only operations and fixed parameters.  Contains and Data change
\* neither m, k nor any bit of the filter they are called on (nor of the
\* other filter), and no call, Add included, changes m, k or the size of the
\* bit array of a filter once it is built.
C17_Frame ==
    [][/\ last'.op \in {"Contains", "Data"} => (bf' = bf /\ imp' = imp)
       /\ SameShape(bf, bf') /\ SameShape(imp, imp')]_vars

\* Contains was called on a filter that holds bits and was exported
C17_Witness ==
    /\ bf # Nil /\ BitsSet(bf.b) # {}
    /\ exported # Nil
    /\ last.op = "Contains" /\ last.on = "bf" /\ ~last.ret

\* f.Add(v) for every v of the sequence vals, in order, until one panics
RECURSIVE AddAll(_, _)
AddAll(f, vals) ==
    IF vals = <<>> THEN [panic |-> FALSE, b |-> f.b]
    ELSE LET r == AddOp(f, Head(vals))
         IN  IF r.panic THEN r ELSE AddAll([f EXCEPT !.b = r.b], Tail(vals))

\* what a sequence of calls yields: the bit array, or no state at all
Outcome(r) == IF r.panic THEN [panic |-> TRUE] ELSE r

\* Add is idempotent and order-insensitive on filter f
Commutes(f) ==
    /\ \A a \in Values : Outcome(AddAll(f, <<a, a>>)) = Outcome(AddAll(f, <<a>>))
    /\ \A a, b \in Values :
          a[1] < b[1] => Outcome(AddAll(f, <<a, b>>)) = Outcome(AddAll(f, <<b, a>>))

\* C18: Add is idempotent and order-insensitive.  From every filter state and
\* for all values a and b, Add(a); Add(a) yields the bit array of one Add(a),
\* and Add(a); Add(b) yields the bit array of Add(b); Add(a).  (Every filter
\* state is the state after a constructor or an Add.)
C18_AddIdempotentCommutative ==
    /\ (bf # Nil /\ last.op \in {"New", "NewWithEstimates"}) => Commutes(bf)
    /\ (imp # Nil /\ last.op = "NewFromData") => Commutes(imp)
    /\ last.op = "Add" => Commutes(IF last.on = "bf" THEN bf ELSE imp)

\* a filter that holds bits of one value, on which the Adds of two more
\* values return and set different bits
C18_Witness ==
    /\ bf # Nil /\ last.op = "Add" /\ BitsSet(bf.b) # {}
    /\ \E a, b \in Values \ added :
          LET ra == AddAll(bf, <<a>>)
              rb == AddAll(bf, <<b>>)
          IN  /\ ~ra.panic /\ ~rb.panic
              /\ ra.b # rb.b /\ ra.b # bf.b /\ rb.b # bf.b

\* C19: NewWithEstimates builds a filter with no internal locking.  The
\* filter it returns has the FakeLocker, whatever n and fp, so the calls of
\* the goroutines on it never hold a lock; New and NewFromData return a
\* filter with the RWMutex exactly when they are passed WithThreadSave.
C19_EstimatesUnlocked ==
    /\ (bf # Nil /\ last.op = "NewWithEstimates") => bf.locker = FakeLocker
    /\ (bf # Nil /\ last.op = "New") =>
          ((bf.locker = RWMutex) = (last.opts = <<WithThreadSave>>))
    /\ (imp # Nil /\ last.op = "NewFromData") =>
          ((imp.locker = RWMutex) = (last.opts = <<WithThreadSave>>))
    /\ (bf # Nil /\ bf.locker = FakeLocker) => mu = Unlocked

\* on a filter built by NewWithEstimates, with no Add returned yet, one
\* goroutine is in the middle of Add(v), between its first and its last bit,
\* and another one's Contains(v) has seen a bit of v set and then one unset
C19_Witness ==
    /\ bf # Nil /\ last.op = "NewWithEstimates" /\ added = {}
    /\ \E g, h \in Goroutines :
          /\ g # h
          /\ \A x \in Goroutines \ {g, h} : pc[x] = "idle"
          /\ pc[g] \in {"add_loop", "add_write"}
          /\ loc[g].i >= 1 /\ loc[g].i < bf.k
          /\ pc[h] = "contains_unlock"
          /\ loc[h].val = loc[g].val
          /\ loc[h].i >= 1 /\ ~loc[h].ret

====
